---- MODULE Spec2Model ----
(***************************************************************************)
(* A model of the Python Keymaster client (src/python/keymaster.py) and of *)
(* the Architect proxy built on it (src/python/architect.py).              *)
(*                                                                         *)
(* Two threads exist per client: the caller's thread, which runs get, put, *)
(* delete, subscribe, unsubscribe, unsubscribe_all and                     *)
(* _kill_subscriber_thread, and the subscriber_task thread, which polls    *)
(* its control pipe (ZMQ REP) and its subscriber socket (ZMQ SUB).         *)
(***************************************************************************)
EXTENDS Integers, Sequences, FiniteSets, TLC

VARIABLES
    store,      \* the remote Keymaster: key -> node, or Absent
    km,         \* self._km, the REQ socket: "none", "ready" or "awaiting"
    sub_task,   \* self._sub_task: "none" or "set"
    wstate,     \* the thread of self._sub_task: Unstarted/Starting/Running/Stopped
    end_thread, \* subscriber_task.end_thread
    callbacks,  \* subscriber_task._callbacks: key -> callback, or None
    filters,    \* sub_sock's armed subscriptions: filter -> count
    pipeOpen,   \* the worker's REP socket exists and is not closed
    subOpen,    \* the worker's SUB socket exists and is not closed
    subQueue,   \* messages waiting on sub_sock
    ctrl,       \* the control pipe: the command or the reply in flight
    pc,         \* where the caller's thread is
    call,       \* the call the caller's thread is in
    ret,        \* what the last finished call returned
    npub,       \* history: how many messages the store published
    delivered,  \* history: every callback invocation
    gen,        \* history: how many subscriber_task objects were created
    ncalls,     \* history: how many calls the caller has started
    architect,  \* Architect._architect: the client's copy of the architect node
    wait        \* wait_all_in_state: statename, timeout, total_wait_time

vars == <<store, km, sub_task, wstate, end_thread, callbacks, filters, pipeOpen,
          subOpen, subQueue, ctrl, pc, call, ret, npub, delivered, gen, ncalls,
          architect, wait>>

(***************************************************************************)
(* Bounds of the model.                                                    *)
(***************************************************************************)
MaxCalls == 3
MaxPub == 2
\* The longest timeout wait_all_in_state is called with, in tenths of a second.
MaxTimeout == 2

(***************************************************************************)
(* The inputs.                                                             *)
(***************************************************************************)
Keys == {"", "a", "b"}
\* The keys the subscription calls of Spec are made with.
SubKeys == {"", "a", "b"}
Topics == {"Root", "a", "b"}
FilterKeys == Keys \cup Topics
Values == {"{}", "v"}
Absent == "absent"

\* The Architect's store: the states of the remote machine ('Standby' is
\* the one architect.py:163 asks for), the modes declared under
\* 'connections', and the modes the caller may ask for.
States == {"Standby", "Running"}
DeclaredModes == {"m1", "m2"}
ModeArgs == DeclaredModes \cup {"bogus"}
Scalars == Values \cup ModeArgs
StateKey == "architect.control.state"
ConfigurationKey == "architect.control.configuration"
ConnectionsNode == "{m1: {}, m2: {}}"
ArchKeys == {StateKey, ConfigurationKey, "connections", "components"}
ArchSubKeys == {"components", "architect"}
None == "None"
\* Callables a caller may hand to subscribe: functions of two parameters (one
\* that returns, one that raises), a function of one parameter, an object
\* that is no function, and bound methods with one and with two parameters
\* besides self.
Functions == {"cb_ok", "cb_raises"}
CallbackArgs == Functions \cup {"cb_one_arg", "not_a_function", "method_one_arg",
                                "method_two_args"}
NoPayload == "no_payload"

\* Control commands, Keymaster.__init__.
SUBSCRIBE == 10
UNSUBSCRIBE == 11
UNSUBSCRIBE_ALL == 12
QUIT == 13
PING == 14

B2S(b) == IF b THEN "True" ELSE "False"

(***************************************************************************)
(* yaml.dump / yaml.load on the values and payloads of the model.          *)
(***************************************************************************)
\* Mutant: the value is not serialised, every put sends the empty mapping.
YamlDump_Empty(v) == "{}\n"

YamlDump(v) == IF v = "{}" THEN "{}\n" ELSE v \o "\n...\n"
YamlLoad(t) ==
    IF t = "{}\n" THEN "{}"
    ELSE CHOOSE v \in Scalars : v \o "\n...\n" = t

\* The architect node {'control': {'configuration': c, 'state': s}} as a
\* record; a node without 'control' (the {} of a failed get) has control
\* FALSE.
ArchNodes == [control : {TRUE}, state : States, configuration : DeclaredModes]
EmptyNode == [control |-> FALSE, state |-> "", configuration |-> ""]
NodeText(n) ==
    "control: {configuration: " \o n.configuration \o ", state: " \o n.state \o "}\n"
ArchNode(t) ==
    IF \E n \in ArchNodes : NodeText(n) = t
    THEN CHOOSE n \in ArchNodes : NodeText(n) = t
    ELSE EmptyNode

\* The store's n-th message carries the number n as its payload.
PayloadText(n) == ToString(n)
YamlLoadPayload(t) ==
    IF \E n \in 1..(MaxPub + 1) : ToString(n) = t
    THEN CHOOSE n \in 1..(MaxPub + 1) : ToString(n) = t
    ELSE ArchNode(t)

\* Python truth of a node: an empty mapping is false.
Truthy(node) == node # "{}"

(***************************************************************************)
(* The request channel: Keymaster._call_keymaster and the store behind it. *)
(***************************************************************************)
\* parts = [p for p in [cmd, key, val, flag] if p]
RECURSIVE NonEmpty(_)
NonEmpty(s) ==
    IF s = <<>> THEN <<>>
    ELSE IF Head(s) = "" THEN NonEmpty(Tail(s))
         ELSE <<Head(s)>> \o NonEmpty(Tail(s))

Parts(cmd, key, val, flag) == NonEmpty(<<cmd, key, val, flag>>)

\* The store reads a request by position; a request without a key addresses
\* the root node.
ReqKey(parts) == IF Len(parts) >= 2 THEN parts[2] ELSE ""
ReqVal(parts) == IF Len(parts) >= 3 THEN parts[3] ELSE ""
ReqFlag(parts) == IF Len(parts) >= 4 THEN parts[4] ELSE ""

\* The node the store holds at k; a text that is no key of the model (a
\* value that slid into the key's position) names no node.
NodeAt(st, k) ==
    IF k \in DOMAIN st THEN st[k]
    ELSE IF k = "architect" /\ StateKey \in DOMAIN st
         THEN NodeText([control |-> TRUE, state |-> st[StateKey],
                        configuration |-> st[ConfigurationKey]])
         ELSE Absent

ServerOk(parts, st) ==
    LET k == ReqKey(parts) IN
    CASE parts[1] = "GET" -> NodeAt(st, k) # Absent
      [] parts[1] = "PUT" -> Len(parts) >= 3 /\ (NodeAt(st, k) # Absent
                                                 \/ (k \in DOMAIN st /\ ReqFlag(parts) = "create"))
      [] parts[1] = "DEL" -> NodeAt(st, k) # Absent
      [] OTHER -> FALSE

ServerReply(parts, st) ==
    LET k == ReqKey(parts) IN
    IF ServerOk(parts, st)
    THEN [key |-> k, result |-> TRUE, err |-> "",
          node |-> IF parts[1] = "GET" THEN NodeAt(st, k) ELSE "{}"]
    ELSE [key |-> k, result |-> FALSE, err |-> "server error", node |-> "{}"]

ServerStore(parts, st) ==
    LET k == ReqKey(parts) IN
    IF ~ServerOk(parts, st) THEN st
    ELSE CASE parts[1] = "PUT" -> [st EXCEPT ![k] = YamlLoad(ReqVal(parts))]
           [] parts[1] = "DEL" -> [st EXCEPT ![k] = Absent]
           [] OTHER -> st

\* Mutant: the reply made up after a time-out reports success.
TimeoutReply_Success(key) ==
    [key |-> key, result |-> TRUE, err |-> "", node |-> "v"]

\* keymaster.py:214
TimeoutReply(key) ==
    [key |-> key, result |-> FALSE, err |-> "Time-out when talking to Keymaster.",
     node |-> "{}"]

NoReply == [key |-> "", result |-> FALSE, err |-> "ZMQError", node |-> "{}"]

\* Mutant: the REQ socket lets a request out while it awaits a reply.
SendRefused_Never(sock) == FALSE

\* km.send_multipart (keymaster.py:209) on a REQ socket that never received
\* the reply to its last request raises ZMQError (EFSM).
SendRefused(sock) == sock = "awaiting"

\* What a poll finds on a socket that sent a second request before it read
\* the reply to the first: the earlier reply.
EarlierReply == [key |-> "", result |-> FALSE, err |-> "earlier reply", node |-> "{}"]

\* Every way one _call_keymaster(cmd, key, val, flag) can go when the REQ
\* socket is in state sock and the store holds st.  A socket that refuses to
\* send makes the call raise.  Otherwise the reply comes within 5 s, or it
\* does not (the request was lost, or the store was slow).  own tells that
\* the reply handed to the caller answers this call's request.
CallKeymaster(cmd, key, val, flag, sock, st) ==
    LET parts == Parts(cmd, key, val, flag) IN
    IF SendRefused(sock)
    THEN {[raised |-> TRUE, timedout |-> FALSE, reply |-> NoReply,
           km |-> sock, store |-> st, own |-> TRUE]}
    ELSE IF sock = "awaiting"
    THEN {[raised |-> FALSE, timedout |-> FALSE, reply |-> EarlierReply,
           km |-> "awaiting", store |-> ServerStore(parts, st), own |-> FALSE]}
    ELSE {[raised |-> FALSE, timedout |-> FALSE, reply |-> ServerReply(parts, st),
           km |-> "ready", store |-> ServerStore(parts, st), own |-> TRUE]}
         \cup
         {[raised |-> FALSE, timedout |-> TRUE, reply |-> TimeoutReply(key),
           km |-> "awaiting", store |-> s, own |-> TRUE] : s \in {st, ServerStore(parts, st)}}

\* Keymaster.get: the node of a successful reply, else {}.
GetResult(reply) == IF reply.result THEN reply.node ELSE "{}"

\* Keymaster.put: the reply's result.
PutResult(reply) == reply.result

(***************************************************************************)
(* Records.                                                                *)
(***************************************************************************)
NoCallbacks == [k \in Keys |-> None]
NoFilters == [f \in FilterKeys |-> 0]

\* A call and its result.  Besides what the caller sees (rval, msg, keys) the
\* record keeps the callback the registry held for the key when the call was
\* made (had), whether the request channel timed out in it (timedout), and
\* the value and the flag of a put (val, flag), and whether the reply the
\* call worked on answered its own request (own).
Ret(op, key, cb, rval, msg) ==
    [op |-> op, key |-> key, cb |-> cb, rval |-> rval, msg |-> msg,
     timedout |-> FALSE, keys |-> {},
     had |-> IF key \in DOMAIN callbacks THEN callbacks[key] ELSE None,
     val |-> "", flag |-> "", own |-> TRUE]

Done(c, rval, msg) == [c EXCEPT !.rval = rval, !.msg = msg]

NoRet ==
    [op |-> "none", key |-> "", cb |-> None, rval |-> "none", msg |-> "",
     timedout |-> FALSE, keys |-> {}, had |-> None, val |-> "", flag |-> "",
     own |-> TRUE]
NoCall == NoRet

\* No Architect was constructed.
NoArchitect == [alive |-> FALSE, control |-> FALSE, state |-> "", configuration |-> ""]
\* No wait_all_in_state is under way: times are in tenths of a second.
NoWait == [name |-> "", timeout |-> 0, total |-> 0]
\* An Architect whose _architect is node.
Cached(node) ==
    [alive |-> TRUE, control |-> node.control, state |-> node.state,
     configuration |-> node.configuration]

\* What travels on the control pipe: parts is the number of frames of a
\* reply.
Request(cmd, key) ==
    [kind |-> "req", cmd |-> cmd, key |-> key, rval |-> "none", msg |-> "", keys |-> {},
     parts |-> 0]
Reply(rval, msg, keys) ==
    [kind |-> "rep", cmd |-> 0, key |-> "", rval |-> rval, msg |-> msg, keys |-> keys,
     parts |-> 0]
NoMessage ==
    [kind |-> "none", cmd |-> 0, key |-> "", rval |-> "none", msg |-> "", keys |-> {},
     parts |-> 0]

(***************************************************************************)
(* Callables: inspect.getargspec(cb_fun) and what a call of cb_fun does.   *)
(***************************************************************************)
\* getargspec accepts functions and methods, and raises TypeError otherwise.
IsFunction(cb) == cb # "not_a_function"
\* The parameters cb takes when it is called.
Takes(cb) == IF cb \in {"cb_one_arg", "method_one_arg"} THEN 1 ELSE 2
\* len(getargspec(cb).args): the names in the def, self included for a method.
NArgs(cb) == IF cb \in {"method_one_arg", "method_two_args"} THEN Takes(cb) + 1
             ELSE Takes(cb)
\* mci(key, n) raises: the callback's own exception, or a TypeError.
Raises(cb) == cb = "cb_raises" \/ Takes(cb) # 2

(***************************************************************************)
(* The SUB socket.                                                         *)
(***************************************************************************)
\* A ZMQ subscription is a prefix of the topics it lets through.  Among the
\* topics of the model only the empty filter is a proper prefix.
IsPrefix(f, t) == f = "" \/ f = t

Armed(flt) == {f \in DOMAIN flt : flt[f] > 0}
Passes(flt, t) == \E f \in Armed(flt) : IsPrefix(f, t)

\* setsockopt(zmq.SUBSCRIBE, key) and setsockopt(zmq.UNSUBSCRIBE, key):
\* subscriptions are counted, removing one that is not there does nothing.
Arm(flt, f) == [flt EXCEPT ![f] = @ + 1]
Disarm(flt, f) == [flt EXCEPT ![f] = IF @ > 0 THEN @ - 1 ELSE 0]

RECURSIVE DisarmAll(_, _)
DisarmAll(flt, ks) ==
    IF ks = {} THEN flt
    ELSE LET k == CHOOSE x \in ks : TRUE IN DisarmAll(Disarm(flt, k), ks \ {k})

Registered(cbs) == {k \in DOMAIN cbs : cbs[k] # None}
CallbackOf(cbs, t) == IF t \in DOMAIN cbs THEN cbs[t] ELSE None

(***************************************************************************)
(* Init: a Keymaster just constructed (keymaster.py:161-176), talking to a *)
(* store that holds every key of the model.                                *)
(***************************************************************************)
Init ==
    /\ store = [k \in Keys |-> "v"]
    /\ km = "none"
    /\ sub_task = "none"
    /\ wstate = "Unstarted"
    /\ end_thread = FALSE
    /\ callbacks = NoCallbacks
    /\ filters = NoFilters
    /\ pipeOpen = FALSE
    /\ subOpen = FALSE
    /\ subQueue = <<>>
    /\ ctrl = NoMessage
    /\ pc = "idle"
    /\ call = NoCall
    /\ ret = NoRet
    /\ npub = 0
    /\ delivered = <<>>
    /\ gen = 0
    /\ ncalls = 0
    /\ architect = NoArchitect
    /\ wait = NoWait

workerVars == <<sub_task, wstate, end_thread, callbacks, filters, pipeOpen, subOpen,
                subQueue, gen>>
histVars == <<npub, delivered>>
archVars == <<architect, wait>>

CanCall == pc = "idle" /\ ncalls < MaxCalls

(***************************************************************************)
(* get, put, delete (keymaster.py:216-231).                                *)
(***************************************************************************)
\* History: the call before this one was a put(key, value, create=True) that
\* returned True; a get records that value next to what it returns.
JustCreated(last, key) ==
    last.op = "put" /\ last.rval = "True" /\ last.flag = "create" /\ last.key = key

GetCall(key) ==
    /\ CanCall
    /\ \E o \in CallKeymaster("GET", key, "", "", km, store) :
        /\ km' = o.km
        /\ store' = o.store
        /\ ret' = [Ret("get", key, None,
                       IF o.raised THEN "raise" ELSE GetResult(o.reply), o.reply.err)
                   EXCEPT !.timedout = o.timedout, !.own = o.own,
                          !.val = IF JustCreated(ret, key) THEN ret.val ELSE "",
                          !.flag = IF JustCreated(ret, key) THEN "create" ELSE ""]
    /\ ncalls' = ncalls + 1
    /\ UNCHANGED <<workerVars, histVars, ctrl, pc, call>>
    /\ UNCHANGED archVars

PutCall(key, value, create) ==
    /\ CanCall
    /\ \E o \in CallKeymaster("PUT", key, YamlDump(value),
                              IF create THEN "create" ELSE "", km, store) :
        /\ km' = o.km
        /\ store' = o.store
        /\ ret' = [Ret("put", key, None,
                       IF o.raised THEN "raise" ELSE B2S(PutResult(o.reply)), o.reply.err)
                   EXCEPT !.timedout = o.timedout, !.own = o.own, !.val = value,
                          !.flag = IF create THEN "create" ELSE ""]
    /\ ncalls' = ncalls + 1
    /\ UNCHANGED <<workerVars, histVars, ctrl, pc, call>>
    /\ UNCHANGED archVars

DeleteCall(key) ==
    /\ CanCall
    /\ \E o \in CallKeymaster("DEL", key, "", "", km, store) :
        /\ km' = o.km
        /\ store' = o.store
        /\ ret' = [Ret("delete", key, None,
                       IF o.raised THEN "raise" ELSE B2S(o.reply.result), o.reply.err)
                   EXCEPT !.timedout = o.timedout, !.own = o.own]
    /\ ncalls' = ncalls + 1
    /\ UNCHANGED <<workerVars, histVars, ctrl, pc, call>>
    /\ UNCHANGED archVars

(***************************************************************************)
(* subscribe (keymaster.py:233-280).                                       *)
(***************************************************************************)
\* subscriber_task.__init__ (keymaster.py:52-65) asks the store for its
\* publishing URLs; with no reply get returns {} and picking the URL raises.
WorkerInit(sock) ==
    IF sock = "awaiting"
    THEN {[raised |-> TRUE, km |-> sock]}
    ELSE {[raised |-> FALSE, km |-> "ready"], [raised |-> TRUE, km |-> "awaiting"]}

\* keymaster.py:251-259: the reason the callable is refused, or "".
CallbackRefused(cb) ==
    IF ~IsFunction(cb) THEN "Callback object is not a function!"
    ELSE IF NArgs(cb) # 2 THEN "Callback function must take 2 arguments"
    ELSE ""

\* keymaster.py:248
KeyMissing(node) == ~Truthy(node)

\* keymaster.py:262
NeedsWorker(task, state) == task = "none"

\* Mutant: the registry is not consulted.
AlreadyRegistered_Skipped(cbs, key) == FALSE

\* keymaster.py:268
AlreadyRegistered(cbs, key) == cbs[key] # None

\* A REQ socket connects to an inproc endpoint nobody has bound: depending on
\* the ZMQ build connect raises, or the command waits for a bind.
MayRefuse(state) == state # "Running"

\* Lines 247-265: the existence check, the callable check, the worker's
\* creation.  Ends the call, or goes on to the registry at line 268.
SubscribeCall(key, cb) ==
    /\ CanCall
    /\ ncalls' = ncalls + 1
    /\ \E o \in CallKeymaster("GET", key, "", "", km, store) :
        /\ store' = o.store
        /\ IF o.raised
           THEN /\ ret' = Ret("subscribe", key, cb, "raise", "ZMQError")
                /\ pc' = "idle"
                /\ km' = o.km
                /\ UNCHANGED workerVars
           ELSE IF KeyMissing(GetResult(o.reply))
           THEN /\ ret' = [Ret("subscribe", key, cb, "False", "does not exist")
                           EXCEPT !.timedout = o.timedout]
                /\ pc' = "idle"
                /\ km' = o.km
                /\ UNCHANGED workerVars
           ELSE IF CallbackRefused(cb) # ""
           THEN /\ ret' = Ret("subscribe", key, cb, "False", CallbackRefused(cb))
                /\ pc' = "idle"
                /\ km' = o.km
                /\ UNCHANGED workerVars
           ELSE IF NeedsWorker(sub_task, wstate)
           THEN \E w \in WorkerInit(o.km) :
                /\ km' = w.km
                /\ IF w.raised
                   THEN /\ ret' = Ret("subscribe", key, cb, "raise", "IndexError")
                        /\ pc' = "idle"
                        /\ UNCHANGED workerVars
                   ELSE /\ sub_task' = "set"
                        /\ wstate' = "Starting"
                        /\ end_thread' = FALSE
                        /\ callbacks' = NoCallbacks
                        /\ filters' = NoFilters
                        /\ subQueue' = <<>>
                        /\ gen' = gen + 1
                        /\ pc' = "sub_check"
                        /\ UNCHANGED <<ret, pipeOpen, subOpen>>
           ELSE /\ pc' = "sub_check"
                /\ km' = o.km
                /\ UNCHANGED <<ret, workerVars>>
    /\ call' = IF pc' = "idle" THEN NoCall ELSE Ret("subscribe", key, cb, "none", "")
    /\ UNCHANGED <<histVars, ctrl>>
    /\ UNCHANGED archVars

\* Lines 267-276: the registry check, the registry write, the command.
SubscribeRegister ==
    /\ pc = "sub_check"
    /\ IF AlreadyRegistered(callbacks, call.key)
       THEN /\ ret' = Done(call, "False", "already registered")
            /\ pc' = "idle"
            /\ UNCHANGED <<callbacks, ctrl>>
       ELSE /\ callbacks' = [callbacks EXCEPT ![call.key] = call.cb]
            /\ \E refused \in {r \in BOOLEAN : r => MayRefuse(wstate)} :
                IF refused
                THEN /\ ret' = Done(call, "raise", "ZMQError")
                     /\ pc' = "idle"
                     /\ UNCHANGED ctrl
                ELSE /\ ctrl' = Request(SUBSCRIBE, call.key)
                     /\ pc' = "sub_wait"
                     /\ UNCHANGED ret
    /\ call' = IF pc' = "idle" THEN NoCall ELSE call
    /\ UNCHANGED <<store, km, sub_task, wstate, end_thread, filters, pipeOpen, subOpen,
                   subQueue, gen, histVars, ncalls>>
    /\ UNCHANGED archVars

\* Lines 278-280.
SubscribeReply ==
    /\ pc = "sub_wait"
    /\ ctrl.kind = "rep"
    /\ ret' = Done(call, ctrl.rval, ctrl.msg)
    /\ ctrl' = NoMessage
    /\ pc' = "idle"
    /\ call' = NoCall
    /\ UNCHANGED <<store, km, workerVars, histVars, ncalls>>
    /\ UNCHANGED archVars

(***************************************************************************)
(* unsubscribe (keymaster.py:282-302).                                     *)
(***************************************************************************)
UnsubscribeCall(key) ==
    /\ CanCall
    /\ ncalls' = ncalls + 1
    /\ IF sub_task = "set"
       THEN \E refused \in {r \in BOOLEAN : r => MayRefuse(wstate)} :
                IF refused
                THEN /\ ret' = Ret("unsubscribe", key, None, "raise", "ZMQError")
                     /\ pc' = "idle"
                     /\ UNCHANGED ctrl
                ELSE /\ ctrl' = Request(UNSUBSCRIBE, key)
                     /\ pc' = "unsub_wait"
                     /\ UNCHANGED ret
       ELSE /\ ret' = Ret("unsubscribe", key, None, "False", "No subscriber thread running!")
            /\ pc' = "idle"
            /\ UNCHANGED ctrl
    /\ call' = IF pc' = "idle" THEN NoCall ELSE Ret("unsubscribe", key, None, "none", "")
    /\ UNCHANGED <<store, km, workerVars, histVars>>
    /\ UNCHANGED archVars

UnsubscribeReply ==
    /\ pc = "unsub_wait"
    /\ ctrl.kind = "rep"
    /\ ret' = Done(call, ctrl.rval, ctrl.msg)
    /\ ctrl' = NoMessage
    /\ pc' = "idle"
    /\ call' = NoCall
    /\ UNCHANGED <<store, km, workerVars, histVars, ncalls>>
    /\ UNCHANGED archVars

(***************************************************************************)
(* unsubscribe_all (keymaster.py:304-318) and _kill_subscriber_thread      *)
(* (keymaster.py:183-196).                                                 *)
(***************************************************************************)
UnsubscribeAllCall ==
    /\ CanCall
    /\ ncalls' = ncalls + 1
    /\ IF sub_task = "set"
       THEN \E refused \in {r \in BOOLEAN : r => MayRefuse(wstate)} :
                IF refused
                THEN /\ ret' = Ret("unsubscribe_all", "", None, "raise", "ZMQError")
                     /\ pc' = "idle"
                     /\ UNCHANGED ctrl
                ELSE /\ ctrl' = Request(UNSUBSCRIBE_ALL, "")
                     /\ pc' = "uall_wait"
                     /\ UNCHANGED ret
       ELSE /\ ret' = Ret("unsubscribe_all", "", None, "False",
                          "No subscriber thread running!")
            /\ pc' = "idle"
            /\ UNCHANGED ctrl
    /\ call' = IF pc' = "idle" THEN NoCall
               ELSE Ret("unsubscribe_all", "", None, "none", "")
    /\ UNCHANGED <<store, km, workerVars, histVars>>
    /\ UNCHANGED archVars

\* Lines 314-316: the reply is kept, then _kill_subscriber_thread sends QUIT.
UnsubscribeAllReply ==
    /\ pc = "uall_wait"
    /\ ctrl.kind = "rep"
    /\ \E refused \in {r \in BOOLEAN : r => MayRefuse(wstate)} :
        IF refused
        THEN /\ ret' = Done(call, "raise", "ZMQError")
             /\ pc' = "idle"
             /\ ctrl' = NoMessage
        ELSE /\ ctrl' = Request(QUIT, "")
             /\ pc' = "kill_wait"
             /\ UNCHANGED ret
    /\ call' = IF pc' = "idle" THEN NoCall
               ELSE [call EXCEPT !.rval = ctrl.rval, !.msg = ctrl.msg, !.keys = ctrl.keys]
    /\ UNCHANGED <<store, km, workerVars, histVars, ncalls>>
    /\ UNCHANGED archVars

\* _kill_subscriber_thread called on its own, as Architect.__del__ does.
KillCall ==
    /\ CanCall
    /\ ncalls' = ncalls + 1
    /\ IF sub_task = "set"
       THEN \E refused \in {r \in BOOLEAN : r => MayRefuse(wstate)} :
                IF refused
                THEN /\ ret' = Ret("kill", "", None, "raise", "ZMQError")
                     /\ pc' = "idle"
                     /\ UNCHANGED ctrl
                ELSE /\ ctrl' = Request(QUIT, "")
                     /\ pc' = "kill_wait"
                     /\ UNCHANGED ret
       ELSE /\ ret' = Ret("kill", "", None, "None", "no thread")
            /\ pc' = "idle"
            /\ UNCHANGED ctrl
    /\ call' = IF pc' = "idle" THEN NoCall ELSE Ret("kill", "", None, "none", "")
    /\ UNCHANGED <<store, km, workerVars, histVars>>
    /\ UNCHANGED archVars

\* The recv_pyobj calls the caller makes for the reply it waits for at p:
\* two in subscribe (278-279), unsubscribe (299-300) and unsubscribe_all
\* (313-314), one in _kill_subscriber_thread (192).
ReadsParts(p) ==
    CASE p \in {"sub_wait", "unsub_wait", "uall_wait"} -> 2
      [] p = "kill_wait" -> 1
      [] OTHER -> 0

\* Lines 192-193.
KillReply ==
    /\ pc = "kill_wait"
    /\ ctrl.kind = "rep"
    /\ ctrl' = NoMessage
    /\ pc' = "kill_join"
    /\ UNCHANGED <<store, km, workerVars, call, ret, histVars, ncalls>>
    /\ UNCHANGED archVars

\* Mutant: the caller does not wait for the thread.
Joined_NoWait(state) == TRUE

\* Line 194: join returns once the thread has ended.
Joined(state) == state = "Stopped"

\* Lines 194-196, and the return of the caller (unsubscribe_all line 317).
KillJoin ==
    /\ pc = "kill_join"
    /\ Joined(wstate)
    /\ sub_task' = "none"
    /\ callbacks' = NoCallbacks
    /\ ret' = IF call.op = "unsubscribe_all" THEN Done(call, call.rval, call.msg)
              ELSE Done(call, "None", "killed")
    /\ pc' = "idle"
    /\ call' = NoCall
    /\ UNCHANGED <<store, km, wstate, end_thread, filters, pipeOpen, subOpen, subQueue,
                   gen, ctrl, histVars, ncalls>>
    /\ UNCHANGED archVars

(***************************************************************************)
(* subscriber_task.run (keymaster.py:71-159).                              *)
(***************************************************************************)
\* Lines 80-87: the sockets are created, connected, bound and registered.
WorkerStart ==
    /\ wstate = "Starting"
    /\ wstate' = "Running"
    /\ pipeOpen' = TRUE
    /\ subOpen' = TRUE
    /\ UNCHANGED <<store, km, sub_task, end_thread, callbacks, filters, subQueue, gen,
                   ctrl, pc, call, ret, histVars, ncalls>>
    /\ UNCHANGED archVars

\* Line 102.
FilterFor(key) == IF key = "" THEN "Root" ELSE key

\* Mutant: UNSUBSCRIBE leaves the callback in the registry.
ControlCallbacks_NoPop(m, cbs) ==
    CASE m.cmd = UNSUBSCRIBE_ALL -> NoCallbacks
      [] OTHER -> cbs

\* The registry after the command at the pipe (lines 98-138).
ControlCallbacks(m, cbs) ==
    CASE m.cmd = UNSUBSCRIBE -> [cbs EXCEPT ![m.key] = None]
      [] m.cmd = UNSUBSCRIBE_ALL -> NoCallbacks
      [] OTHER -> cbs

\* The subscriptions of sub_sock after the command at the pipe.
ControlFilters(m, cbs, flt) ==
    CASE m.cmd = SUBSCRIBE -> Arm(flt, FilterFor(m.key))
      [] m.cmd = UNSUBSCRIBE -> IF cbs[m.key] # None THEN Disarm(flt, m.key) ELSE flt
      [] m.cmd = UNSUBSCRIBE_ALL -> DisarmAll(flt, Registered(cbs))
      [] OTHER -> flt

\* Mutant: every reply is sent as a single frame.
ReplyParts_One(cmd) == IF cmd = 0 THEN 0 ELSE 1

\* The frames of the reply to cmd: send_pyobj with SNDMORE and a second
\* send_pyobj (lines 106-107, 115-116, 118-120, 128-130), or one send_pyobj
\* (134, 138).
ReplyParts(cmd) ==
    CASE cmd \in {SUBSCRIBE, UNSUBSCRIBE, UNSUBSCRIBE_ALL} -> 2
      [] cmd \in {QUIT, PING} -> 1
      [] OTHER -> 0

\* The reply to the command at the pipe.
ControlReply(m, cbs) ==
    LET r == CASE m.cmd = SUBSCRIBE -> Reply("True", FilterFor(m.key), {})
               [] m.cmd = UNSUBSCRIBE ->
                     IF cbs[m.key] # None THEN Reply("True", "unsubscribed.", {})
                     ELSE Reply("False", "No such key is subscribed.", {})
               [] m.cmd = UNSUBSCRIBE_ALL -> Reply("True", "Keys cleared", Registered(cbs))
               [] m.cmd = QUIT -> Reply("True", "", {})
               [] m.cmd = PING -> Reply("True", "", {})
               [] OTHER -> NoMessage
    IN [r EXCEPT !.parts = ReplyParts(m.cmd)]

\* Line 135.
ControlEnds(m, e) == IF m.cmd = QUIT THEN TRUE ELSE e

\* Line 89.
Looping(state, e) == state = "Running" /\ ~e

\* Lines 95-138: one command is read, performed and answered.
WorkerControl ==
    /\ Looping(wstate, end_thread)
    /\ ctrl.kind = "req"
    /\ callbacks' = ControlCallbacks(ctrl, callbacks)
    /\ filters' = ControlFilters(ctrl, callbacks, filters)
    /\ end_thread' = ControlEnds(ctrl, end_thread)
    /\ ctrl' = ControlReply(ctrl, callbacks)
    /\ UNCHANGED <<store, km, sub_task, wstate, pipeOpen, subOpen, subQueue, gen,
                   pc, call, ret, histVars, ncalls>>
    /\ UNCHANGED archVars

\* architect.py:71-75, the part for 'architect' (the copy of 'components' is
\* not modelled).
SetData(a, key, val) == IF key = "architect" THEN Cached(val) ELSE a

\* What calling cb(key, val) does to the Architect: the closure made by
\* ArchitectCallback for sub_key = key hands the node to set_data
\* (architect.py:64-66); other callbacks do not know the Architect.
CallbackSets(cb, key, val, a) ==
    IF cb = "arch_cb" /\ a.alive THEN SetData(a, key, val) ELSE a

\* The closure calls arch().set_data (architect.py:66) with no test of what
\* arch() returned: once the Architect's weak reference is dead arch() is
\* None and the attribute look-up raises AttributeError.
DeadReference(cb, a) == cb = "arch_cb" /\ ~a.alive

\* The call mci(key, n) at line 148 raises.
CallbackRaises(cb, a) == IF DeadReference(cb, a) THEN TRUE ELSE Raises(cb)

\* Lines 144-145: the message is dispatched.
Dispatches(m, cbs) == m.payload # NoPayload /\ CallbackOf(cbs, m.topic) # None

\* What the worker does when the callback raises (lines 156-157): the
\* exception leaves the loop and the thread ends.
AfterRaise(state) == "Stopped"

\* Lines 140-148: one message is read from sub_sock and dispatched.
WorkerNotify ==
    /\ Looping(wstate, end_thread)
    /\ subQueue # <<>>
    /\ subQueue' = Tail(subQueue)
    /\ LET m == Head(subQueue)
           cb == CallbackOf(callbacks, m.topic) IN
       IF Dispatches(m, callbacks)
       THEN /\ delivered' = Append(delivered,
                 [key |-> m.topic, val |-> YamlLoadPayload(m.payload), cb |-> cb,
                  seq |-> m.seq])
            /\ IF CallbackRaises(cb, architect)
               THEN /\ wstate' = AfterRaise(wstate)
                    /\ end_thread' = (wstate' = "Stopped")
               ELSE UNCHANGED <<wstate, end_thread>>
       ELSE UNCHANGED <<delivered, wstate, end_thread>>
    /\ architect' = IF Dispatches(Head(subQueue), callbacks)
                    THEN CallbackSets(CallbackOf(callbacks, Head(subQueue).topic),
                                      Head(subQueue).topic,
                                      YamlLoadPayload(Head(subQueue).payload), architect)
                    ELSE architect
    /\ UNCHANGED <<store, km, sub_task, callbacks, filters, pipeOpen, subOpen, gen,
                   ctrl, pc, call, ret, npub, ncalls, wait>>

\* Lines 149-150 and 158: the loop has ended, both sockets are closed.
WorkerExit ==
    /\ wstate = "Running"
    /\ end_thread
    /\ wstate' = "Stopped"
    /\ pipeOpen' = FALSE
    /\ subOpen' = FALSE
    /\ subQueue' = <<>>
    /\ filters' = NoFilters
    /\ UNCHANGED <<store, km, sub_task, end_thread, callbacks, gen, ctrl, pc, call, ret,
                   histVars, ncalls>>
    /\ UNCHANGED archVars

\* Lines 152-155: a ZMQError in the set-up or in the loop ends the thread;
\* nothing is closed.
WorkerZMQError ==
    /\ wstate \in {"Starting", "Running"}
    /\ ~end_thread
    /\ wstate' = "Stopped"
    /\ UNCHANGED <<store, km, sub_task, end_thread, callbacks, filters, pipeOpen, subOpen,
                   subQueue, gen, ctrl, pc, call, ret, histVars, ncalls>>
    /\ UNCHANGED archVars

(***************************************************************************)
(* The store publishes a message: a topic, with or without a payload.  It  *)
(* reaches sub_sock when an armed subscription lets it through.            *)
(***************************************************************************)
Publish(topic, hasPayload) ==
    /\ npub < MaxPub
    /\ npub' = npub + 1
    /\ LET m == [topic |-> topic, seq |-> npub + 1,
                 payload |-> IF hasPayload THEN PayloadText(npub + 1) ELSE NoPayload] IN
       subQueue' = IF subOpen /\ Passes(filters, topic)
                   THEN Append(subQueue, m) ELSE subQueue
    /\ UNCHANGED <<store, km, sub_task, wstate, end_thread, callbacks, filters, pipeOpen,
                   subOpen, gen, ctrl, pc, call, ret, delivered, ncalls>>
    /\ UNCHANGED archVars

Next ==
    \/ \E k \in SubKeys, cb \in Functions : SubscribeCall(k, cb)
    \/ SubscribeRegister
    \/ SubscribeReply
    \/ \E k \in SubKeys : UnsubscribeCall(k)
    \/ UnsubscribeReply
    \/ UnsubscribeAllCall
    \/ UnsubscribeAllReply
    \/ KillCall
    \/ KillReply
    \/ KillJoin
    \/ WorkerStart
    \/ WorkerControl
    \/ WorkerNotify
    \/ WorkerExit
    \/ WorkerZMQError
    \/ \E t \in Topics : Publish(t, TRUE)

Spec == Init /\ [][Next]_vars

(***************************************************************************)
(* Steps of the caller, for the properties below.                          *)
(***************************************************************************)
\* The step starts a call.
Issues == pc = "idle" /\ ncalls' = ncalls + 1
\* The step ends a call: the caller has ret'.
Returns == pc' = "idle" /\ (pc # "idle" \/ ncalls' = ncalls + 1)
\* The step belongs to a subscribe(k, ...) call up to its registry check.
SubscribeStep(k) ==
    \/ Issues /\ pc' = "sub_check" /\ call'.key = k
    \/ Issues /\ pc' = "idle" /\ ret'.op = "subscribe" /\ ret'.key = k
    \/ pc = "sub_check" /\ pc' # "sub_check" /\ call.key = k

(***************************************************************************)
(* C1.  At most one callback per key: a subscribe(key, cb2) made while key *)
(* is in the registry does not register cb2 -- the registry keeps the      *)
(* callback of the first subscribe -- and when the call returns it returns *)
(* (False, reason).                                                        *)
(***************************************************************************)
C1_AtMostOneCallbackPerKey ==
    [][\A k \in Keys :
        (sub_task = "set" /\ callbacks[k] # None /\ SubscribeStep(k))
        => /\ callbacks' = callbacks
           /\ pc' # "sub_wait"
           /\ (Returns /\ ret'.rval # "raise") => ret'.rval = "False"]_vars

\* A second subscribe with another callback was refused for the registry.
C1_Witness ==
    /\ pc = "idle"
    /\ ret.op = "subscribe"
    /\ ret.rval = "False"
    /\ ret.msg = "already registered"
    /\ ret.had # None
    /\ ret.cb # ret.had
    /\ callbacks[ret.key] = ret.had

(***************************************************************************)
(* C2.  Callback failure is contained: dispatching a notification, also to *)
(* a callback that raises, leaves the worker in its wait loop.             *)
(***************************************************************************)
C2_CallbackFailureContained ==
    [][delivered' # delivered => wstate' = "Running"]_vars

(***************************************************************************)
(* C3.  Unsubscribe guard: unsubscribe(key), when it returns, returns      *)
(* False when key was not in the registry (also when there is no worker)   *)
(* and True when it was; no step of the call changes the registry entry or *)
(* the subscription of another key; and from a True reply on no callback   *)
(* is invoked for key (until key is subscribed again).                     *)
(***************************************************************************)
LastDelivered == delivered'[Len(delivered')]

C3_UnsubscribeGuard ==
    [][/\ (Returns /\ ret'.op = "unsubscribe" /\ ret'.rval # "raise")
          => /\ ret'.rval = (IF ret'.had # None THEN "True" ELSE "False")
             /\ callbacks'[ret'.key] = None
       /\ \/ (pc = "unsub_wait")
          \/ (Issues /\ pc' = "unsub_wait")
          \/ (Returns /\ ret'.op = "unsubscribe")
          => \A k \in Keys \ {IF pc = "unsub_wait" THEN call.key
                              ELSE IF pc' = "unsub_wait" THEN call'.key ELSE ret'.key} :
                callbacks'[k] = callbacks[k] /\ filters'[FilterFor(k)] = filters[FilterFor(k)]
       /\ (pc = "idle" /\ pc' = "idle" /\ ret.op = "unsubscribe" /\ ret.rval = "True"
           /\ delivered' # delivered)
          => LastDelivered.key # ret.key]_vars

\* unsubscribe returned True for a key while another key stayed subscribed,
\* and a message was published after the reply.
C3_Witness ==
    /\ pc = "idle"
    /\ ret.op = "unsubscribe"
    /\ ret.rval = "True"
    /\ Registered(callbacks) # {}
    /\ subQueue # <<>>
    /\ delivered # <<>>
    /\ delivered[Len(delivered)].key = ret.key

(***************************************************************************)
(* C4.  Shutdown cleanliness: once _kill_subscriber_thread has returned    *)
(* (called directly or by unsubscribe_all) the client holds no worker, the *)
(* worker thread has ended, both its sockets are closed, and no callback   *)
(* is invoked while the client holds no worker.                            *)
(***************************************************************************)
TornDown ==
    /\ pc = "idle"
    /\ \/ ret.op = "kill" /\ ret.rval = "None"
       \/ ret.op = "unsubscribe_all" /\ ret.rval = "True"

C4_ShutdownCleanliness ==
    /\ [](TornDown => sub_task = "none")
    /\ [](sub_task = "none" => /\ wstate \in {"Unstarted", "Stopped"}
                               /\ ~pipeOpen
                               /\ ~subOpen)
    /\ [][sub_task = "none" => delivered' = delivered]_vars

\* A teardown returned after callbacks had been invoked, and messages were
\* published before and after it.
C4_Witness ==
    /\ TornDown
    /\ ret.msg = "killed"
    /\ delivered # <<>>
    /\ npub > delivered[Len(delivered)].seq

(***************************************************************************)
(* C5.  Dead-worker recovery: a subscribe that finds the worker stopped    *)
(* and passes its checks creates a fresh worker.                           *)
(***************************************************************************)
C5_DeadWorkerRecovery ==
    [][(Issues /\ wstate = "Stopped" /\ pc' = "sub_check") => gen' = gen + 1]_vars

(***************************************************************************)
(* C6.  Ordered delivery, none dropped: a notification that waits on the   *)
(* subscriber socket for a key in the registry has a worker that will      *)
(* dispatch it, unless the transport failed or the worker was told to      *)
(* quit.                                                                   *)
(***************************************************************************)
C6_OrderedDelivery ==
    \A i \in 1..Len(subQueue) :
        (sub_task = "set" /\ Dispatches(subQueue[i], callbacks))
        => (wstate = "Running" \/ ~end_thread)

(***************************************************************************)
(* C10.  unsubscribe_all: when the worker has answered UNSUBSCRIBE_ALL no  *)
(* subscription is armed on the subscriber socket, the registry is empty   *)
(* and the reply is a success; when unsubscribe_all returns the worker     *)
(* thread has ended and the client holds no worker; and a successful       *)
(* subscribe that found no worker leaves a registry of its own key alone.  *)
(***************************************************************************)
C10_UnsubscribeAll ==
    /\ []((pc = "uall_wait" /\ ctrl.kind = "rep")
          => /\ Armed(filters) = {}
             /\ Registered(callbacks) = {}
             /\ ctrl.rval = "True")
    /\ []((pc = "idle" /\ ret.op = "unsubscribe_all" /\ ret.rval = "True")
          => sub_task = "none" /\ wstate = "Stopped")
    /\ [][(pc = "sub_wait" /\ Returns /\ ret'.rval = "True" /\ wstate' = "Running"
           /\ ret'.had = None /\ Cardinality(Registered(callbacks')) > 1)
          => gen' = gen /\ gen > 0]_vars

(***************************************************************************)
(* The request channel alone: a client that only calls get, put and        *)
(* delete.                                                                 *)
(***************************************************************************)
ReqNext ==
    \/ \E k \in Keys : GetCall(k)
    \/ \E k \in Keys, v \in Values, c \in BOOLEAN : PutCall(k, v, c)
    \/ \E k \in Keys : DeleteCall(k)

ReqSpec == Init /\ [][ReqNext]_vars

(***************************************************************************)
(* C7.  Timeout fallback: a call whose request got no reply within the     *)
(* 5 s poll does not raise; the reply it works on has result false and the *)
(* time-out text; get returns the empty node {} and put returns False.     *)
(***************************************************************************)
C7_TimeoutFallback ==
    (pc = "idle" /\ ret.timedout /\ ret.op \in {"get", "put", "delete"})
    => /\ ret.rval # "raise"
       /\ ret.msg = "Time-out when talking to Keymaster."
       /\ ret.op = "get" => ret.rval = "{}" /\ ~Truthy(ret.rval)
       /\ ret.op = "put" => ret.rval = "False"
       /\ ret.op = "delete" => ret.rval = "False"

\* A put timed out although the store performed it.
C7_Witness ==
    /\ pc = "idle"
    /\ ret.timedout
    /\ ret.op = "put"
    /\ ret.rval = "False"
    /\ store[ret.key] = "{}"

(***************************************************************************)
(* A client that subscribes with every kind of callable, on keys that may  *)
(* have been deleted from the store.                                       *)
(***************************************************************************)
FrameNext ==
    \/ \E k \in Keys : DeleteCall(k)
    \/ \E k \in SubKeys, cb \in CallbackArgs : SubscribeCall(k, cb)
    \/ SubscribeRegister
    \/ SubscribeReply
    \/ WorkerStart
    \/ WorkerControl
    \/ WorkerZMQError

FrameSpec == Init /\ [][FrameNext]_vars

\* The subscribe call a step belongs to.
Subscribing == IF pc' = "idle" THEN ret' ELSE call'

(***************************************************************************)
(* C9.  A failed subscribe changes nothing: a subscribe that does not      *)
(* raise, for a key the store does not hold, or with a callable that is no *)
(* function or does not take exactly two parameters, or for a key already  *)
(* in the registry, returns False, and leaves the registry, the filters    *)
(* and the worker as they were.                                            *)
(***************************************************************************)
C9_FailedSubscribeChangesNothing ==
    [][/\ (/\ Issues
           /\ Subscribing.op = "subscribe"
           /\ Subscribing.rval # "raise"
           /\ \/ store[Subscribing.key] = Absent
              \/ ~IsFunction(Subscribing.cb)
              \/ Takes(Subscribing.cb) # 2)
          => /\ Returns
             /\ ret'.rval = "False"
             /\ UNCHANGED workerVars
       /\ (pc = "sub_check" /\ callbacks[call.key] # None)
          => /\ Returns
             /\ ret'.rval = "False"
             /\ UNCHANGED workerVars]_vars

(***************************************************************************)
(* The Architect (architect.py).                                           *)
(***************************************************************************)
\* A call of the Architect and its result: key is the mode asked for, had
\* the state the store held for the remote machine when the call was made.
ArchRet(op, mode, rval, msg) ==
    [op |-> op, key |-> mode, cb |-> None, rval |-> rval, msg |-> msg,
     timedout |-> FALSE, keys |-> {}, had |-> store[StateKey], val |-> "", flag |-> "",
     own |-> TRUE]

\* The notification of a change under 'architect': the topic and the node.
ArchMessage(st, n) ==
    [topic |-> "architect", seq |-> n, payload |-> NodeAt(st, "architect")]

\* The store publishes the node st to the subscribers it passes to.
Notified(st) ==
    /\ npub' = npub + 1
    /\ subQueue' = IF subOpen /\ Passes(filters, "architect")
                   THEN Append(subQueue, ArchMessage(st, npub + 1)) ELSE subQueue

\* The state after Architect.__init__ (architect.py:39-47) has returned: both
\* gets were answered, the worker runs with the two subscriptions armed, and
\* the copy is the node the store holds.
ArchInit ==
    /\ \E s \in States :
        /\ store = [k \in ArchKeys |->
                       CASE k = StateKey -> s
                         [] k = ConfigurationKey -> "m1"
                         [] k = "connections" -> ConnectionsNode
                         [] OTHER -> "v"]
        /\ architect = Cached([control |-> TRUE, state |-> s, configuration |-> "m1"])
    /\ km = "ready"
    /\ sub_task = "set"
    /\ wstate = "Running"
    /\ end_thread = FALSE
    /\ callbacks = [k \in ArchSubKeys |-> "arch_cb"]
    /\ filters = [k \in ArchSubKeys |-> 1]
    /\ pipeOpen = TRUE
    /\ subOpen = TRUE
    /\ subQueue = <<>>
    /\ ctrl = NoMessage
    /\ pc = "idle"
    /\ call = NoCall
    /\ ret = NoRet
    /\ npub = 0
    /\ delivered = <<>>
    /\ gen = 1
    /\ ncalls = 0
    /\ wait = NoWait

\* The remote machine changes state; the store publishes the node.
RemoteChange ==
    /\ npub + (IF pc = "mode_put" THEN 1 ELSE 0) < MaxPub
    /\ \E s \in States \ {store[StateKey]} :
        /\ store' = [store EXCEPT ![StateKey] = s]
        /\ Notified(store')
    /\ UNCHANGED <<km, sub_task, wstate, end_thread, callbacks, filters, pipeOpen,
                   subOpen, gen, ctrl, pc, call, ret, delivered, ncalls, archVars>>

\* architect.py:139
ModeKeys(connections) == IF connections = ConnectionsNode THEN DeclaredModes ELSE {}

\* Mutant: the state is not looked at.
NotStandby_Ignored(arch_state) == FALSE

\* architect.py:163
NotStandby(arch_state) == arch_state # "Standby"

\* architect.py:160-169: the state of the copy, the modes of the store, the
\* two refusals.
SetSystemModeCall(mode) ==
    /\ CanCall
    /\ architect.alive
    /\ npub < MaxPub
    /\ ncalls' = ncalls + 1
    /\ IF ~architect.control
       THEN /\ ret' = ArchRet("set_system_mode", mode, "raise", "KeyError")
            /\ pc' = "idle"
            /\ UNCHANGED <<km, store>>
       ELSE \E o \in CallKeymaster("GET", "connections", "", "", km, store) :
            /\ km' = o.km
            /\ store' = o.store
            /\ IF o.raised
               THEN /\ ret' = ArchRet("set_system_mode", mode, "raise", "ZMQError")
                    /\ pc' = "idle"
               ELSE IF NotStandby(architect.state)
               THEN /\ ret' = ArchRet("set_system_mode", mode, "False",
                                      "System state must be 'Standby'")
                    /\ pc' = "idle"
               ELSE IF mode \notin ModeKeys(GetResult(o.reply))
               THEN /\ ret' = ArchRet("set_system_mode", mode, "False", "Unknown mode")
                    /\ pc' = "idle"
               ELSE /\ pc' = "mode_put"
                    /\ UNCHANGED ret
    /\ call' = IF pc' = "idle" THEN NoCall
               ELSE ArchRet("set_system_mode", mode, "none", "")
    /\ UNCHANGED <<workerVars, histVars, ctrl, archVars>>

\* architect.py:171-175: the PUT and what is made of its result.  A PUT the
\* store performs changes the node, which the store publishes.
SetSystemModePut ==
    /\ pc = "mode_put"
    /\ \E o \in CallKeymaster("PUT", ConfigurationKey, YamlDump(call.key), "", km, store) :
        /\ km' = o.km
        /\ store' = o.store
        /\ ret' = IF o.raised THEN Done(call, "raise", "ZMQError")
                  ELSE IF ~PutResult(o.reply)
                       THEN [Done(call, "False", "Could not change mode, Keymaster error.")
                             EXCEPT !.timedout = o.timedout]
                       ELSE Done(call, "True", call.key)
        /\ IF o.store # store
           THEN Notified(o.store)
           ELSE UNCHANGED <<npub, subQueue>>
    /\ pc' = "idle"
    /\ call' = NoCall
    /\ UNCHANGED <<sub_task, wstate, end_thread, callbacks, filters, pipeOpen, subOpen,
                   gen, ctrl, delivered, ncalls, archVars>>

\* architect.py:177-182
GetStateCall ==
    /\ CanCall
    /\ architect.alive
    /\ ncalls' = ncalls + 1
    /\ \E o \in CallKeymaster("GET", "architect", "", "", km, store) :
        /\ km' = o.km
        /\ store' = o.store
        /\ IF o.raised
           THEN /\ ret' = ArchRet("get_state", "", "raise", "ZMQError")
                /\ UNCHANGED architect
           ELSE /\ architect' = Cached(ArchNode(GetResult(o.reply)))
                /\ ret' = IF architect'.control
                          THEN ArchRet("get_state", "", architect'.state, "")
                          ELSE ArchRet("get_state", "", "raise", "KeyError")
    /\ UNCHANGED <<workerVars, histVars, ctrl, pc, call, wait>>

ArchNext ==
    \/ RemoteChange
    \/ \E m \in ModeArgs : SetSystemModeCall(m)
    \/ SetSystemModePut
    \/ GetStateCall
    \/ WorkerNotify

ArchSpec == ArchInit /\ [][ArchNext]_vars

\* The set_system_mode call a step starts.
Setting == IF pc' = "idle" THEN ret' ELSE call'

C12_RegistryConfinement ==
    [][(sub_task = "set" /\ sub_task' = "set" /\ gen' = gen /\ callbacks' # callbacks)
       => (Looping(wstate, end_thread) /\ ctrl.kind = "req" /\ ctrl'.kind = "rep")]_vars

(***************************************************************************)
(* C13.  At most one pending request: a get, put or delete made while the  *)
(* request socket still awaits the reply to an earlier request sends       *)
(* nothing (the store is not reached, the call raises ZMQError); and every *)
(* call that returns worked on the reply to its own request, or on the     *)
(* reply made up after its own time-out.                                   *)
(***************************************************************************)
C13_AtMostOnePendingRequest ==
    [][(Issues /\ ret'.op \in {"get", "put", "delete"})
       => /\ km = "awaiting" => (ret'.rval = "raise" /\ store' = store /\ km' = km)
          /\ ret'.rval # "raise" => (ret'.own /\ km # "awaiting")]_vars

\* A call was made after an earlier call had timed out.
C13_Witness ==
    /\ pc = "idle"
    /\ ret.op \in {"get", "put", "delete"}
    /\ ret.rval = "raise"
    /\ km = "awaiting"
    /\ ncalls >= 2

(***************************************************************************)
(* The client and its worker under fair scheduling: a thread that can take *)
(* a step of its code eventually takes it.  Faults (a ZMQError in the      *)
(* worker) and the store's publications may or may not happen.             *)
(***************************************************************************)
Fairness ==
    /\ WF_vars(SubscribeRegister)
    /\ WF_vars(SubscribeReply)
    /\ WF_vars(UnsubscribeReply)
    /\ WF_vars(UnsubscribeAllReply)
    /\ WF_vars(KillReply)
    /\ WF_vars(KillJoin)
    /\ WF_vars(WorkerStart)
    /\ WF_vars(WorkerControl)
    /\ WF_vars(WorkerNotify)
    /\ WF_vars(WorkerExit)

LiveSpec == Init /\ [][Next]_vars /\ Fairness

\* The caller is inside a control-channel call, waiting for the worker.
Waiting == pc \in {"sub_wait", "unsub_wait", "uall_wait", "kill_wait", "kill_join"}

(***************************************************************************)
(* C14.  Every control-channel call returns: a caller that waits for the   *)
(* worker's reply (or for the worker's end) eventually returns.            *)
(***************************************************************************)
C14_EveryControlCallReturns == Waiting ~> (pc = "idle")

(***************************************************************************)
(* C15.  Control protocol discipline: a command on the control pipe is     *)
(* taken off it only by the worker's loop, which puts exactly one reply in *)
(* its place; the reply has as many frames as the waiting caller reads;    *)
(* a command is only sent when no other command is in flight, and whatever *)
(* is on the pipe belongs to the call the caller is waiting in.            *)
(***************************************************************************)
C15_ControlProtocolDiscipline ==
    /\ [](ctrl.kind = "rep" => (Waiting /\ ctrl.parts = ReadsParts(pc)))
    /\ [](ctrl.kind = "req" => Waiting)
    /\ [][(ctrl.kind = "req" /\ ctrl' # ctrl)
          => (Looping(wstate, end_thread) /\ ctrl'.kind = "rep"
              /\ ctrl'.parts = ReplyParts(ctrl.cmd))]_vars
    /\ [][(ctrl'.kind = "req" /\ ctrl' # ctrl) => ctrl.kind # "req"]_vars

\* The worker has answered the QUIT of a teardown that follows a subscribe.
C15_Witness ==
    /\ pc = "kill_wait"
    /\ ctrl.kind = "rep"
    /\ ctrl.parts = 1
    /\ ret.op = "subscribe"
    /\ ret.rval = "True"

(***************************************************************************)
(* The Keymaster object is finalised (keymaster.py:178-181): the request   *)
(* socket is closed if there is one.  The worker holds only a weak         *)
(* reference to the client (line 80), so the client can be finalised while *)
(* the thread runs; __del__ touches neither the pipe nor the thread.       *)
(***************************************************************************)
KeymasterDel ==
    /\ pc = "idle"
    /\ pc' = "deleted"
    /\ km' = IF km = "none" THEN km ELSE "closed"
    /\ UNCHANGED <<store, workerVars, ctrl, call, ret, histVars, ncalls>>
    /\ UNCHANGED archVars

DelNext ==
    \/ Next
    \/ KeymasterDel

DelSpec == Init /\ [][DelNext]_vars

(***************************************************************************)
(* C16.  Client teardown order: once the client has been torn down, its    *)
(* worker thread has ended (it was told to quit and was joined before the  *)
(* request channel was closed); no worker outlives its client.             *)
(***************************************************************************)
C16_ClientTeardownOrder ==
    pc = "deleted" => wstate \in {"Unstarted", "Stopped"}

(***************************************************************************)
(* C17.  Startup ordering: the caller of subscribe connects its end of the *)
(* control pipe and sends the command (lines 273-276) only when the worker *)
(* has bound the pipe (line 85).                                           *)
(***************************************************************************)
C17_StartupOrdering ==
    [][(pc = "sub_check" /\ pc' # "sub_check" /\ ~AlreadyRegistered(callbacks, call.key))
       => pipeOpen]_vars

(***************************************************************************)
(* C18.  Filter/registry agreement: when a subscribe has returned True,    *)
(* the worker runs and no control command is in flight, the keys with an   *)
(* armed filter on sub_sock are the keys of the callback registry (the     *)
(* empty key included).                                                    *)
(***************************************************************************)
C18_FilterRegistryAgreement ==
    (/\ pc = "idle"
     /\ ctrl.kind = "none"
     /\ sub_task = "set"
     /\ wstate = "Running"
     /\ ret.op = "subscribe"
     /\ ret.rval = "True")
        => Armed(filters) = Registered(callbacks)

(***************************************************************************)
(* The Architect is torn down (architect.py:49-53).  The interpreter       *)
(* clears the weak references to the object before it runs __del__, which  *)
(* then unsubscribes 'components' and 'architect' and ends the worker;     *)
(* an exception in one of the three calls ends __del__.                    *)
(***************************************************************************)
ArchitectDel ==
    /\ pc = "idle"
    /\ architect.alive
    /\ architect' = [architect EXCEPT !.alive = FALSE]
    /\ UNCHANGED <<store, km, workerVars, ctrl, pc, call, ret, histVars, ncalls, wait>>

\* Where __del__ stands, from the call of it that returned last.
DelPosition(a, last) ==
    CASE a.alive -> "none"
      [] last.rval = "raise" -> "aborted"
      [] last.op = "unsubscribe" /\ last.key = "components" -> "architect"
      [] last.op = "unsubscribe" /\ last.key = "architect" -> "kill"
      [] last.op = "kill" -> "done"
      [] OTHER -> "components"

\* architect.py:50-51
ArchitectDelUnsubscribe(key) ==
    /\ DelPosition(architect, ret) = key
    /\ UnsubscribeCall(key)

\* architect.py:52
ArchitectDelKill ==
    /\ DelPosition(architect, ret) = "kill"
    /\ KillCall

TearNext ==
    \/ RemoteChange
    \/ ArchitectDel
    \/ \E k \in ArchSubKeys : ArchitectDelUnsubscribe(k)
    \/ UnsubscribeReply
    \/ ArchitectDelKill
    \/ KillReply
    \/ KillJoin
    \/ WorkerControl
    \/ WorkerNotify
    \/ WorkerExit

TearSpec == ArchInit /\ [][TearNext]_vars

(***************************************************************************)
(* C19.  Callback after client teardown is a no-op: a notification         *)
(* dispatched when the Architect's weak reference is dead changes nothing  *)
(* and leaves the worker running.                                          *)
(***************************************************************************)
C19_CallbackAfterTeardownNoOp ==
    [][(~architect.alive /\ delivered' # delivered)
       => (wstate' = "Running" /\ ~end_thread' /\ architect' = architect)]_vars

(***************************************************************************)
(* wait_all_in_state (architect.py:77-85, 93-115).  The store holds the    *)
(* components map under 'components': every component has a flag 'active'  *)
(* and a 'state'.                                                          *)
(***************************************************************************)
Components == {"c1", "c2"}
ComponentMaps == [Components -> [active : BOOLEAN, state : States]]
NoComponents == [c \in {} |-> [active |-> FALSE, state |-> ""]]
Timeouts == 0..MaxTimeout

\* The YAML text of a components map, and the map of a text; the {} of a
\* failed get is the empty map.
ComponentText(c, r) ==
    c \o ": {active: " \o (IF r.active THEN "true" ELSE "false")
      \o ", state: " \o r.state \o "}\n"
ComponentsText(m) == ComponentText("c1", m["c1"]) \o ComponentText("c2", m["c2"])
ComponentsNode(t) ==
    IF \E m \in ComponentMaps : ComponentsText(m) = t
    THEN CHOOSE m \in ComponentMaps : ComponentsText(m) = t
    ELSE NoComponents

\* architect.py:84-85: the states of the active components are all `state`.
CheckAllInState(comps, state) ==
    \A c \in DOMAIN comps : comps[c].active => comps[c].state = state

\* The state after Architect.__init__ has returned, with a components map in
\* the store.
WaitInit ==
    /\ \E m \in ComponentMaps :
        store = [k \in ArchKeys |->
                    CASE k = StateKey -> "Standby"
                      [] k = ConfigurationKey -> "m1"
                      [] k = "connections" -> ConnectionsNode
                      [] OTHER -> ComponentsText(m)]
    /\ architect = Cached([control |-> TRUE, state |-> "Standby", configuration |-> "m1"])
    /\ km = "ready"
    /\ sub_task = "set"
    /\ wstate = "Running"
    /\ end_thread = FALSE
    /\ callbacks = [k \in ArchSubKeys |-> "arch_cb"]
    /\ filters = [k \in ArchSubKeys |-> 1]
    /\ pipeOpen = TRUE
    /\ subOpen = TRUE
    /\ subQueue = <<>>
    /\ ctrl = NoMessage
    /\ pc = "idle"
    /\ call = NoCall
    /\ ret = NoRet
    /\ npub = 0
    /\ delivered = <<>>
    /\ gen = 1
    /\ ncalls = 0
    /\ wait = NoWait

\* A component changes state; the store publishes the map.
ComponentChange ==
    /\ npub < MaxPub
    /\ npub' = npub + 1
    /\ \E c \in Components, s \in States :
        LET m == ComponentsNode(store["components"]) IN
        /\ m[c].state # s
        /\ store' = [store EXCEPT !["components"] =
                        ComponentsText([m EXCEPT ![c].state = s])]
    /\ subQueue' = IF subOpen /\ Passes(filters, "components")
                   THEN Append(subQueue, [topic |-> "components", seq |-> npub + 1,
                                          payload |-> store'["components"]])
                   ELSE subQueue
    /\ UNCHANGED <<km, sub_task, wstate, end_thread, callbacks, filters, pipeOpen,
                   subOpen, gen, ctrl, pc, call, ret, delivered, ncalls, archVars>>

\* architect.py:101-102: rval = False, total_wait_time = 0.0.
WaitCall(statename, timeout) ==
    /\ CanCall
    /\ architect.alive
    /\ ncalls' = ncalls + 1
    /\ wait' = [name |-> statename, timeout |-> timeout, total |-> 0]
    /\ pc' = "wait_poll"
    /\ call' = ArchRet("wait_all_in_state", statename, "none", "")
    /\ UNCHANGED <<store, km, workerVars, histVars, ctrl, ret, architect>>

\* architect.py:104-113: one turn of the loop, the get of check_all_in_state
\* included.
WaitPoll ==
    /\ pc = "wait_poll"
    /\ \E o \in CallKeymaster("GET", "components", "", "", km, store) :
        /\ km' = o.km
        /\ store' = o.store
        /\ IF o.raised
           THEN /\ ret' = Done(call, "raise", "ZMQError")
                /\ pc' = "idle"
                /\ UNCHANGED wait
           ELSE IF CheckAllInState(ComponentsNode(GetResult(o.reply)), wait.name)
           THEN /\ ret' = [Done(call, "True", "") EXCEPT !.timedout = o.timedout]
                /\ pc' = "idle"
                /\ UNCHANGED wait
           ELSE IF wait.total + 1 > wait.timeout
           THEN /\ ret' = [Done(call, "False", "") EXCEPT !.timedout = o.timedout]
                /\ pc' = "idle"
                /\ wait' = [wait EXCEPT !.total = @ + 1]
           ELSE /\ wait' = [wait EXCEPT !.total = @ + 1]
                /\ UNCHANGED <<ret, pc>>
    /\ call' = IF pc' = "idle" THEN NoCall ELSE call
    /\ UNCHANGED <<workerVars, histVars, ctrl, ncalls, architect>>

WaitNext ==
    \/ ComponentChange
    \/ \E n \in States, t \in Timeouts : WaitCall(n, t)
    \/ WaitPoll
    \/ WorkerNotify

WaitSpec == WaitInit /\ [][WaitNext]_vars

(***************************************************************************)
(* C20.  wait_all_in_state returns True only if every active component of  *)
(* the store's components map is in the state waited for, and returns      *)
(* False only once the accumulated wait exceeds the timeout.               *)
(***************************************************************************)
C20_WaitAllInState ==
    [][(pc = "wait_poll" /\ pc' = "idle")
       => /\ ret'.rval = "True"
              => CheckAllInState(ComponentsNode(store["components"]), wait.name)
          /\ ret'.rval = "False" => wait'.total > wait'.timeout]_vars

====
